---- MODULE Spec2Model ----
(***************************************************************************)
(* Model of src/App.tsx: a Redux store made of two reducers (counter and   *)
(* dates), two buttons that dispatch ADD and DATE actions, and four        *)
(* placements of the connected Counter component (one directly under the   *)
(* Provider, three nested inside connected containers).                    *)
(*                                                                         *)
(* JavaScript objects are modelled as records with a `ref` field that      *)
(* stands for the object's identity: `{...state, x: v}` allocates a new    *)
(* object (fresh ref), `return state` returns the same object (same ref).  *)
(* Two records of the model are equal exactly when they are the same       *)
(* object, which is the comparison (===) react-redux applies to the        *)
(* fields of a selection.                                                  *)
(***************************************************************************)
EXTENDS Integers, Sequences, FiniteSets, TLC

\* ---------------------------------------------------------------- bounds
\* Longest sequence of dispatched actions explored.
MaxDispatch == 4
\* Date.now() is drawn from 1..MaxDate (milliseconds since epoch, positive).
MaxDate == 2

\* ------------------------------------------------------------- constants
ADD == "ADD"
DATE == "DATE"

\* `null` of DateState.date; no timestamp Date.now() returns is negative.
Null == -1

\* Values Date.now() may return at a button press.
Dates == 1..MaxDate

\* Action types neither reducer has a case for.
OtherTypes == {"@@redux/PROBE_UNKNOWN_ACTION", "RESET"}

\* ----------------------------------------------------------------- state
VARIABLES
    store,       \* the root state held by the store: [ref, counter, dates]
    allocated,   \* number of allocation rounds so far (source of fresh refs)
    dispatched,  \* history: the actions dispatched so far, oldest first
    container,   \* per connected container: the selection it last rendered
    rendered     \* per Counter placement: the props CounterRaw last rendered

vars == <<store, allocated, dispatched, container, rendered>>

\* The three connected containers that wrap a Counter.
Containers == {"ContainerBad", "ContainerNonBlocking1", "ContainerNonBlocking2"}

\* The four places where App.render puts a <Counter />.
Placements == {"Counter"} \cup Containers

\* -------------------------------------------------------------- reducers
initialDateState_epoch == [ref |-> 0, date |-> 0]

initialDateState == [ref |-> 0, date |-> Null]

initialCounterState == [ref |-> 0, count |-> 0]

dateReducer_clearsOnDefault(state, action, fresh) ==
    IF action.type = DATE
    THEN [ref |-> fresh, date |-> action.payload.date]
    ELSE [ref |-> fresh, date |-> Null]

dateReducer(state, action, fresh) ==
    IF action.type = DATE
    THEN [ref |-> fresh, date |-> action.payload.date]
    ELSE state

counterReducer_resetsOnDefault(state, action, fresh) ==
    IF action.type = ADD
    THEN [ref |-> fresh, count |-> state.count + 1]
    ELSE [ref |-> fresh, count |-> 0]

counterReducer_addsTwo(state, action, fresh) ==
    IF action.type = ADD
    THEN [ref |-> fresh, count |-> state.count + 2]
    ELSE state

counterReducer(state, action, fresh) ==
    IF action.type = ADD
    THEN [ref |-> fresh, count |-> state.count + 1]
    ELSE state

\* The reducer configureStore builds from the slot map: each slot reducer
\* gets its own slot; the root object is replaced only if a slot changed.
rootReducer(state, action, fresh) ==
    LET nextCounter == counterReducer(state.counter, action, fresh)
        nextDates   == dateReducer(state.dates, action, fresh)
        hasChanged  == nextCounter # state.counter \/ nextDates # state.dates
    IN  IF hasChanged
        THEN [ref |-> fresh, counter |-> nextCounter, dates |-> nextDates]
        ELSE state

\* ------------------------------------------------------------ selections
mapStateToProps_countOnly(state) ==
    [count |-> state.counter.count, date |-> Null]

mapStateToProps(state) ==
    [count |-> state.counter.count, date |-> state.dates.date]

mapStateToPropsBreaking(state) == [empty |-> TRUE]

mapStateToPropsNonBlocking1(state) == [count |-> state.counter.count]

mapStateToPropsNonBlocking2_datesOnly(state) == [state |-> state.dates]

mapStateToPropsNonBlocking2(state) == [state |-> state]

\* The selection function each container was connected with.
ContainerSelection(c, state) ==
    CASE c = "ContainerBad"          -> mapStateToPropsBreaking(state)
      [] c = "ContainerNonBlocking1" -> mapStateToPropsNonBlocking1(state)
      [] c = "ContainerNonBlocking2" -> mapStateToPropsNonBlocking2(state)

\* ------------------------------------------------------ actions of a press
handleIncrement_dispatchesDate == [type |-> DATE, payload |-> [date |-> 1]]

handleIncrement == [type |-> ADD]

handleDate(now) == [type |-> DATE, payload |-> [date |-> now]]

\* ------------------------------------------------------------------ Init
Init ==
    /\ store = [ref |-> 0, counter |-> initialCounterState,
                dates |-> initialDateState]
    /\ allocated = 0
    /\ dispatched = << >>
    /\ container = [c \in Containers |-> ContainerSelection(c, store)]
    /\ rendered = [p \in Placements |-> mapStateToProps(store)]

\* ---------------------------------------------------------------- dispatch
\* store.dispatch(action) followed by the synchronous notification of the
\* connected components.
\*  - The Counter directly under the Provider is subscribed to the store and
\*    renders its selection of the new state.
\*  - A container whose selection changed re-renders and then notifies the
\*    Counter nested in it.
\*  - A container whose selection did not change does not re-render. Whether
\*    the nested Counter is notified then depends on the react-redux build
\*    (the file's header reports both outcomes: blocked on React Native with
\*    9.x, not blocked on web), so both are admitted.
Dispatch(action) ==
    /\ Len(dispatched) < MaxDispatch
    /\ LET fresh == allocated + 1
           next  == rootReducer(store, action, fresh)
           rerenders(c) == ContainerSelection(c, next) # container[c]
       IN  /\ store' = next
           /\ allocated' = IF next # store THEN fresh ELSE allocated
           /\ dispatched' = Append(dispatched, action)
           /\ container' = [c \in Containers |-> ContainerSelection(c, next)]
           /\ \E passedOn \in SUBSET Containers :
                rendered' = [p \in Placements |->
                    IF p = "Counter" \/ (p \in Containers /\ rerenders(p))
                       \/ p \in passedOn
                    THEN mapStateToProps(next)
                    ELSE rendered[p]]

\* Button "Increment Counter".
PressIncrement == Dispatch(handleIncrement)

\* Button "Update Date".
PressDate == \E now \in Dates : Dispatch(handleDate(now))

\* An action of a type the reducers have no case for reaches the store.
DispatchOther == \E t \in OtherTypes : Dispatch([type |-> t])

Next == PressIncrement \/ PressDate \/ DispatchOther

Spec == Init /\ [][Next]_vars

\* --------------------------------------------------- history bookkeeping
RECURSIVE NumAdds(_)
NumAdds(log) ==
    IF log = << >> THEN 0
    ELSE (IF log[Len(log)].type = ADD THEN 1 ELSE 0)
         + NumAdds(SubSeq(log, 1, Len(log) - 1))

HasDate(log) == \E i \in 1..Len(log) : log[i].type = DATE

HasOther(log) == \E i \in 1..Len(log) : log[i].type \in OtherTypes

\* Payload of the most recent DATE action of a log that has one.
LastDatePayload(log) ==
    LET i == CHOOSE k \in 1..Len(log) :
                /\ log[k].type = DATE
                /\ \A j \in (k + 1)..Len(log) : log[j].type # DATE
    IN  log[i].payload.date

\* This step dispatched one action of a type other than ADD and DATE.
DispatchedUnrecognized ==
    /\ Len(dispatched') = Len(dispatched) + 1
    /\ dispatched'[Len(dispatched')].type \notin {ADD, DATE}

\* ------------------------------------------------------------ properties

\* C1: after any sequence of dispatched actions, counter.count equals the
\* number of ADD actions in the sequence (DATE and unrecognized actions do
\* not count).
CountEqualsNumberOfAdds == store.counter.count = NumAdds(dispatched)

\* A run with two ADDs mixed with a DATE and an unrecognized action.
CountAfterMixedActions ==
    /\ NumAdds(dispatched) = 2
    /\ HasDate(dispatched)
    /\ HasOther(dispatched)
    /\ store.counter.count = 2

\* C2: once a DATE action was dispatched, dates.date is the payload of the
\* most recent DATE action; and a press of "Increment Counter" (an ADD
\* action) never changes dates.date.
DateIsLastPayload ==
    /\ [](HasDate(dispatched) =>
            store.dates.date = LastDatePayload(dispatched))
    /\ [][PressIncrement => store'.dates.date = store.dates.date]_vars

\* Two DATE actions with different payloads, then an ADD: the date is the
\* second payload.
DateOverwrittenThenAdd ==
    /\ Len(dispatched) >= 3
    /\ dispatched[1].type = DATE
    /\ dispatched[2].type = DATE
    /\ dispatched[1].payload.date # dispatched[2].payload.date
    /\ dispatched[Len(dispatched)].type = ADD
    /\ store.dates.date = dispatched[2].payload.date

\* C3: dispatching an action whose type is neither ADD nor DATE leaves the
\* counter slot and the dates slot exactly as they were (same objects).
UnrecognizedActionChangesNoSlot ==
    [][DispatchedUnrecognized =>
          (store'.counter = store.counter /\ store'.dates = store.dates)]_vars

\* An unrecognized action arrived last, after both slots had left their
\* initial values, and both values are still there.
UnrecognizedAfterBothSlotsSet ==
    /\ Len(dispatched) >= 3
    /\ dispatched[Len(dispatched)].type \in OtherTypes
    /\ store.counter.count > 0
    /\ store.dates.date # Null

\* C5: after every dispatch, the Counter nested in ContainerNonBlocking2
\* shows the store's current counter.count and dates.date.
NonBlocking2ShowsLatestState ==
    rendered["ContainerNonBlocking2"] =
        [count |-> store.counter.count, date |-> store.dates.date]

\* The nested Counter shows a count and a date that both came from
\* dispatches, the last of which was a DATE.
NonBlocking2ShowsBothSlots ==
    /\ Len(dispatched) >= 2
    /\ dispatched[Len(dispatched)].type = DATE
    /\ rendered["ContainerNonBlocking2"].count > 0
    /\ rendered["ContainerNonBlocking2"].date = LastDatePayload(dispatched)

\* C6: after every dispatch, the Counter placed directly under the Provider
\* shows the store's current counter.count and dates.date.
BaselineShowsLatestState ==
    rendered["Counter"] =
        [count |-> store.counter.count, date |-> store.dates.date]

\* The baseline Counter shows a count and a date that both came from
\* dispatches, the last of which was an ADD.
BaselineShowsBothSlots ==
    /\ Len(dispatched) >= 2
    /\ dispatched[Len(dispatched)].type = ADD
    /\ rendered["Counter"].count > 0
    /\ rendered["Counter"].date # Null

\* C8: the store starts with count 0 and no date; the date stays absent as
\* long as no DATE action was dispatched, whatever ADD and unrecognized
\* actions were; after exactly three ADDs (and no DATE) the count is 3 and
\* the date is absent.
DateAbsentUntilFirstDate ==
    /\ (dispatched = << >> =>
            store.counter.count = 0 /\ store.dates.date = Null)
    /\ (~HasDate(dispatched) => store.dates.date = Null)
    /\ (NumAdds(dispatched) = 3 /\ ~HasDate(dispatched) =>
            store.counter.count = 3 /\ store.dates.date = Null)

\* Exactly three ADDs and nothing else were dispatched.
ThreeAddsDispatched ==
    /\ dispatched = <<handleIncrement, handleIncrement, handleIncrement>>
    /\ store.counter.count = 3
    /\ store.dates.date = Null

\* C10: a press of "Increment Counter" dispatches exactly one action, of
\* type ADD, and leaves the dates slot unchanged; a press of "Update Date"
\* dispatches exactly one action, of type DATE, and leaves the counter slot
\* unchanged.
PressChangesOnlyItsOwnSlot ==
    /\ [][PressIncrement =>
            /\ Len(dispatched') = Len(dispatched) + 1
            /\ dispatched'[Len(dispatched')].type = ADD
            /\ store'.dates = store.dates]_vars
    /\ [][PressDate =>
            /\ Len(dispatched') = Len(dispatched) + 1
            /\ dispatched'[Len(dispatched')].type = DATE
            /\ store'.counter = store.counter]_vars

\* Both buttons were pressed, each twice, alternating.
BothButtonsPressed ==
    /\ Len(dispatched) = 4
    /\ dispatched[1].type = ADD
    /\ dispatched[2].type = DATE
    /\ dispatched[3].type = ADD
    /\ dispatched[4].type = DATE
    /\ store.counter.count = 2
    /\ store.dates.date = dispatched[4].payload.date

====
